---- MODULE Spec2Model ----
(***************************************************************************)
(* Model of micropython-midi (src/midi.py): the value types MidiInteger    *)
(* and BigMidiInteger and the Controller that writes three-byte channel    *)
(* messages to a serial port, one byte per port.send call.                 *)
(*                                                                         *)
(* A Python exception is modelled as the field exc of the value a call     *)
(* returns: "none" when the call returned normally, otherwise the name of  *)
(* the exception that left it.  A frame is the record [out, tag, sends,    *)
(* exc, failAt] threaded through the statements of one public call: out is *)
(* the bytes the port accepted so far in this call, tag the position of    *)
(* each of them in its message, sends the number of port.send calls made,  *)
(* failAt the index of the port.send call that raises (0: the port accepts *)
(* every byte).  A statement reached with exc # "none" is not executed,    *)
(* which is how an exception unwinds.  The port is the pyb serial object   *)
(* the caller passes in; a failure of the port is an exception raised by   *)
(* its send.                                                               *)
(*                                                                         *)
(* src/midi_switch.py holds two free functions that send three raw bytes   *)
(* to the port without a Controller; they take no part in the Controller's *)
(* behaviour and are not modelled.                                         *)
(***************************************************************************)
EXTENDS Integers, Sequences, FiniteSets, TLC

VARIABLES channel, sink, tags, prev, call, result, ncalls, value14, big

vars == <<channel, sink, tags, prev, call, result, ncalls, value14, big>>

\* ------------------------------------------------------------------ bounds
\* Number of Controller calls in one behaviour.
MaxCalls == 1
\* BigMidiInteger is tried on every integer from -Margin to 2^14 + Margin.
Margin == 2

\* ------------------------------------------------------- python values
\* The absent optional argument (Python's None) and a supplied one.
None == <<>>
Some(v) == <<v>>

\* Python truthiness of an optional integer argument: None and 0 are falsy.
Truthy(o) == o # None /\ o[1] # 0

\* The value of a parameter with a default: the default when not supplied.
OrDefault(o, d) == IF o = None THEN d ELSE o[1]

\* ------------------------------------------------------- value types
\* A MidiInteger whose upper bound is inclusive, as BigMidiInteger's is.
MidiInteger_inclusive(value) ==
    IF 0 <= value /\ value <= 2 ^ 7
    THEN [exc |-> "none", value |-> value]
    ELSE [exc |-> "ValueError"]

\* MidiInteger(value): an object with the single attribute value, or ValueError.
MidiInteger(value) ==
    IF 0 <= value /\ value < 2 ^ 7
    THEN [exc |-> "none", value |-> value]
    ELSE [exc |-> "ValueError"]

\* BigMidiInteger(value): an object with attributes msb and lsb, or ValueError.
BigMidiInteger(value) ==
    IF 0 <= value /\ value <= 2 ^ 14
    THEN [exc |-> "none", msb |-> value \div 2 ^ 7, lsb |-> value % 2 ^ 7]
    ELSE [exc |-> "ValueError"]

\* Attribute lookup on an object: obj.name exists iff the constructor set it.
HasAttr(obj, name) == name \in DOMAIN obj

\* ------------------------------------------------------- controller
COMMANDS == <<128, 144, 160, 176, 192, 208, 224>>

\* command in self.COMMANDS
InCommands(command) == \E i \in 1..Len(COMMANDS) : COMMANDS[i] = command

\* Channels the constructor accepts.
Channels == {c \in 0..17 : 1 <= c /\ c <= 16}

\* The frame a public call starts with.
Frame(failAt) ==
    [out |-> <<>>, tag |-> <<>>, sends |-> 0, exc |-> "none", failAt |-> failAt]

\* raise: the exception leaves the statement, the bytes already sent stay sent.
Raise(f, e) == IF f.exc # "none" THEN f ELSE [f EXCEPT !.exc = e]

\* A send that returns on a timeout instead of raising: the byte is dropped and
\* the caller goes on.
PortSend_returns(f, byte, position) ==
    IF f.exc # "none" THEN f
    ELSE IF f.sends + 1 = f.failAt
    THEN [f EXCEPT !.sends = @ + 1]
    ELSE [f EXCEPT !.sends = @ + 1,
                   !.out = Append(@, byte),
                   !.tag = Append(@, position)]

\* self.port.send(byte, timeout=self.timeout): the port takes the byte, or the
\* send raises and the byte is not taken.
PortSend(f, byte, position) ==
    IF f.exc # "none" THEN f
    ELSE IF f.sends + 1 = f.failAt
    THEN [f EXCEPT !.sends = @ + 1, !.exc = "IOError"]
    ELSE [f EXCEPT !.sends = @ + 1,
                   !.out = Append(@, byte),
                   !.tag = Append(@, position)]

\* self.port.send(MidiInteger(data).value, ...): the argument is built first.
SendData(f, data, position) ==
    IF f.exc # "none" THEN f
    ELSE IF MidiInteger(data).exc # "none" THEN Raise(f, MidiInteger(data).exc)
    ELSE PortSend(f, MidiInteger(data).value, position)

send_message(f, command, data1, data2) ==
    IF f.exc # "none" THEN f
    ELSE IF ~InCommands(command) THEN Raise(f, "ValueError")
    ELSE LET status == command + channel - 1
             f1 == PortSend(f, status, "status")
             f2 == SendData(f1, data1, "data1")
         IN  SendData(f2, OrDefault(data2, 0), "data2")

note_off(f, note, velocity) == send_message(f, 128, note, Some(OrDefault(velocity, 0)))

\* A note_on whose default velocity is note_off's.
note_on_velocity0(f, note, velocity) ==
    send_message(f, 144, note, Some(OrDefault(velocity, 0)))

note_on(f, note, velocity) == send_message(f, 144, note, Some(OrDefault(velocity, 127)))

pressure(f, value, note) ==
    IF Truthy(note)
    THEN send_message(f, 160, note[1], Some(value))
    ELSE send_message(f, 208, value, None)

control_change(f, control, value) == send_message(f, 176, control, Some(value))

\* A program_change that selects the bank MSB first.
program_change_msb_first(f, value, bank) ==
    IF Truthy(bank)
    THEN LET b == BigMidiInteger(bank[1])
         IN  IF b.exc # "none" THEN Raise(f, b.exc)
             ELSE LET f1 == control_change(f, 0, b.msb)
                      f2 == control_change(f1, 32, b.lsb)
                  IN  send_message(f2, 192, value, None)
    ELSE send_message(f, 192, value, None)

program_change(f, value, bank) ==
    IF Truthy(bank)
    THEN LET b == BigMidiInteger(bank[1])
         IN  IF b.exc # "none" THEN Raise(f, b.exc)
             ELSE LET f1 == control_change(f, 32, b.lsb)
                      f2 == control_change(f1, 0, b.msb)
                  IN  send_message(f2, 192, value, None)
    ELSE send_message(f, 192, value, None)

\* A pitch_bend that sends the MSB as data1.
pitch_bend_msb_first(f, value) ==
    LET v == BigMidiInteger(OrDefault(value, 8192))
    IN  IF v.exc # "none" THEN Raise(f, v.exc)
        ELSE send_message(f, 224, v.msb, Some(v.lsb))

pitch_bend(f, value) ==
    LET v == BigMidiInteger(OrDefault(value, 8192))
    IN  IF v.exc # "none" THEN Raise(f, v.exc)
        ELSE send_message(f, 224, v.lsb, Some(v.msb))

modulation(f, value, fine) ==
    IF fine
    THEN LET v == MidiInteger(value)
         IN  IF v.exc # "none" THEN Raise(f, v.exc)
             ELSE IF ~HasAttr(v, "lsb") THEN Raise(f, "AttributeError")
             ELSE LET f1 == control_change(f, 33, v.lsb)
                  IN  IF f1.exc # "none" THEN f1
                      ELSE IF ~HasAttr(v, "msb") THEN Raise(f1, "AttributeError")
                      ELSE control_change(f1, 1, v.msb)
    ELSE control_change(f, 1, value)

volume(f, value, fine) ==
    IF fine
    THEN LET v == BigMidiInteger(value)
         IN  IF v.exc # "none" THEN Raise(f, v.exc)
             ELSE LET f1 == control_change(f, 39, v.lsb)
                  IN  control_change(f1, 7, v.msb)
    ELSE control_change(f, 7, value)

all_sound_off(f) == control_change(f, 120, 0)

reset_all_controllers(f) == control_change(f, 121, 0)

\* bool(value) of an integer: anything but 0.
local_control(f, value) ==
    IF value # 0 THEN control_change(f, 122, 127) ELSE control_change(f, 122, 0)

all_notes_off(f) == control_change(f, 123, 0)

\* A panic that catches the error of each step and goes on to the next, then
\* raises the first error.
panic_best_effort(f) ==
    LET f1 == all_sound_off(f)
        f2 == reset_all_controllers([f1 EXCEPT !.exc = "none"])
        f3 == all_notes_off([f2 EXCEPT !.exc = "none"])
        first == IF f1.exc # "none" THEN f1.exc
                 ELSE IF f2.exc # "none" THEN f2.exc ELSE f3.exc
    IN  [f3 EXCEPT !.exc = first]

panic(f) ==
    LET f1 == all_sound_off(f)
        f2 == reset_all_controllers(f1)
    IN  all_notes_off(f2)

\* ------------------------------------------------------- calls
\* One public call: the method, its arguments (cmd and a are integers, b is an
\* optional integer, fine a boolean; a method ignores those it does not take)
\* and the port's behaviour during the call.
Mk(op, cmd, a, b, fine, failAt) ==
    [op |-> op, cmd |-> cmd, a |-> a, b |-> b, fine |-> fine, failAt |-> failAt]

NoCall == Mk("none", 0, 0, None, FALSE, 0)

\* The frame in which the call c ends.
Exec(c) ==
    LET f == Frame(c.failAt)
    IN  CASE c.op = "send_message" -> send_message(f, c.cmd, c.a, c.b)
          [] c.op = "note_off" -> note_off(f, c.a, c.b)
          [] c.op = "note_on" -> note_on(f, c.a, c.b)
          [] c.op = "pressure" -> pressure(f, c.a, c.b)
          [] c.op = "control_change" -> control_change(f, c.cmd, c.a)
          [] c.op = "program_change" -> program_change(f, c.a, c.b)
          [] c.op = "pitch_bend" -> pitch_bend(f, c.b)
          [] c.op = "modulation" -> modulation(f, c.a, c.fine)
          [] c.op = "volume" -> volume(f, c.a, c.fine)
          [] c.op = "all_sound_off" -> all_sound_off(f)
          [] c.op = "reset_all_controllers" -> reset_all_controllers(f)
          [] c.op = "local_control" -> local_control(f, c.a)
          [] c.op = "all_notes_off" -> all_notes_off(f)
          [] c.op = "panic" -> panic(f)

\* The call c is made on the controller: what the port accepted is appended to
\* the bytes it holds, and the caller sees the call return or raise.
Do(c) ==
    /\ \E f \in {Exec(c)} :
           /\ sink' = sink \o f.out
           /\ tags' = tags \o f.tag
           /\ result' = f.exc
    /\ prev' = sink
    /\ call' = c
    /\ ncalls' = ncalls + 1
    /\ UNCHANGED <<channel, value14, big>>

\* ------------------------------------------------------- arguments tried
\* 7-bit data: the lower end, a value inside, the first value beyond.
Few7 == {0, 60, 128}
\* 14-bit data: both ends, a value whose halves differ, the accepted value 2^14
\* and one beyond each end.
Data14 == {-1, 0, 300, 16383, 16384, 16385}
\* The banks tried; pitch_bend and volume try the values beyond the range.
Banks == {0, 1, 300, 16383}
\* Commands handed to send_message: one of COMMANDS (the methods below hand it
\* the other six), a status byte that is no command (0x91) and a value beyond
\* the table (0xF0).
Commands == {COMMANDS[1], 145, 240}
\* port.send calls a method makes when nothing fails: 3 for each message.  The
\* port fails at one of them, or (0) at none.
OneMessage == 0..3
TwoMessages == 0..6
ThreeMessages == 0..9

SendMessage ==
    /\ ncalls < MaxCalls
    /\ \E cmd \in Commands, d1 \in {60, 128}, d2 \in {None, Some(128)},
          k \in OneMessage :
           Do(Mk("send_message", cmd, d1, d2, FALSE, k))

NoteOff ==
    /\ ncalls < MaxCalls
    /\ \E n \in {60, 128}, v \in {None, Some(128)}, k \in OneMessage :
           Do(Mk("note_off", 0, n, v, FALSE, k))

NoteOn ==
    /\ ncalls < MaxCalls
    /\ \E n \in Few7, v \in {None, Some(64), Some(128)}, k \in OneMessage :
           Do(Mk("note_on", 0, n, v, FALSE, k))

Pressure ==
    /\ ncalls < MaxCalls
    /\ \E v \in {60, 128}, n \in {None, Some(0), Some(61), Some(128)}, k \in OneMessage :
           Do(Mk("pressure", 0, v, n, FALSE, k))

ControlChange ==
    /\ ncalls < MaxCalls
    /\ \E ctl \in {7, 128}, v \in {-1, 0, 127, 128}, k \in OneMessage :
           Do(Mk("control_change", ctl, v, None, FALSE, k))

ProgramChange ==
    /\ ncalls < MaxCalls
    /\ \E p \in {5, 127}, b \in {None} \cup {Some(v) : v \in Banks},
          k \in ThreeMessages :
           Do(Mk("program_change", 0, p, b, FALSE, k))

PitchBend ==
    /\ ncalls < MaxCalls
    /\ \E v \in {None} \cup {Some(v) : v \in Data14}, k \in OneMessage :
           Do(Mk("pitch_bend", 0, 0, v, FALSE, k))

Modulation ==
    /\ ncalls < MaxCalls
    /\ \E v \in {0, 100, 128}, fine \in BOOLEAN, k \in TwoMessages :
           Do(Mk("modulation", 0, v, None, fine, k))

Volume ==
    /\ ncalls < MaxCalls
    /\ \E v \in {100, 300, 16384, 16385}, fine \in BOOLEAN, k \in TwoMessages :
           Do(Mk("volume", 0, v, None, fine, k))

AllSoundOff ==
    /\ ncalls < MaxCalls
    /\ \E k \in OneMessage : Do(Mk("all_sound_off", 0, 0, None, FALSE, k))

ResetAllControllers ==
    /\ ncalls < MaxCalls
    /\ \E k \in OneMessage : Do(Mk("reset_all_controllers", 0, 0, None, FALSE, k))

LocalControl ==
    /\ ncalls < MaxCalls
    /\ \E v \in {0, 1}, k \in OneMessage : Do(Mk("local_control", 0, v, None, FALSE, k))

AllNotesOff ==
    /\ ncalls < MaxCalls
    /\ \E k \in OneMessage : Do(Mk("all_notes_off", 0, 0, None, FALSE, k))

Panic ==
    /\ ncalls < MaxCalls
    /\ \E k \in ThreeMessages : Do(Mk("panic", 0, 0, None, FALSE, k))

\* BigMidiInteger(value14) is constructed.
Construct ==
    /\ big.exc = "unset"
    /\ big' = BigMidiInteger(value14)
    /\ UNCHANGED <<channel, sink, tags, prev, call, result, ncalls, value14>>

\* ------------------------------------------------------- specifications
\* A controller just constructed on one of the sixteen channels, on a port that
\* has taken no byte from it yet.
Init ==
    /\ channel \in Channels
    /\ sink = <<>>
    /\ tags = <<>>
    /\ prev = <<>>
    /\ call = NoCall
    /\ result = "none"
    /\ ncalls = 0
    /\ value14 = 0
    /\ big = [exc |-> "unset"]

Next ==
    \/ SendMessage
    \/ NoteOff
    \/ NoteOn
    \/ Pressure
    \/ ControlChange
    \/ ProgramChange
    \/ PitchBend
    \/ Modulation
    \/ Volume
    \/ AllSoundOff
    \/ ResetAllControllers
    \/ LocalControl
    \/ AllNotesOff
    \/ Panic

Spec == Init /\ [][Next]_vars

\* The value type alone: an integer about to be handed to BigMidiInteger.
InitValues ==
    /\ channel = 1
    /\ sink = <<>>
    /\ tags = <<>>
    /\ prev = <<>>
    /\ call = NoCall
    /\ result = "none"
    /\ ncalls = 0
    /\ value14 \in (0 - Margin)..(2 ^ 14 + Margin)
    /\ big = [exc |-> "unset"]

NextValues == Construct

SpecValues == InitValues /\ [][NextValues]_vars

\* ------------------------------------------------------- properties
\* The bytes the port took during the last call.
Written == SubSeq(sink, Len(prev) + 1, Len(sink))

\* The status byte of a message of the given base on this controller's channel.
StatusByte(base) == base + (channel - 1)

IsPrefix(s, t) == Len(s) <= Len(t) /\ SubSeq(t, 1, Len(s)) = s

SevenBit == 0..127

\* C1: send_message with one of the seven commands and data1 or data2 outside
\* 0..127 fails with a range error and leaves the bytes the port holds as they
\* were (the port itself accepting every byte).
C1_InvalidDataWritesNothing ==
    (/\ call.op = "send_message"
     /\ call.cmd \in {128, 144, 160, 176, 192, 208, 224}
     /\ call.failAt = 0
     /\ (call.a \notin SevenBit \/ OrDefault(call.b, 0) \notin SevenBit))
    => (result = "ValueError" /\ sink = prev)

\* C2: constructing the 14-bit value of v succeeds for every v in 0..16384 with
\* msb * 128 + lsb = v and both halves in 0..127, and fails with a range error
\* for every other v.
C2_SplitInRange ==
    big.exc # "unset" =>
        IF value14 \in 0..16384
        THEN /\ big.exc = "none"
             /\ big.msb * 128 + big.lsb = value14
             /\ big.msb \in SevenBit
             /\ big.lsb \in SevenBit
        ELSE big.exc = "ValueError"

\* C3: on a port that accepts every byte, note_on(n) with the default velocity
\* appends exactly [0x90 + (c-1), n, 127] and note_off(n) with the default
\* velocity exactly [0x80 + (c-1), n, 0], for every note n in 0..127.
C3_NoteDefaults ==
    /\ (/\ call.op = "note_on"
        /\ call.b = None
        /\ call.a \in SevenBit
        /\ call.failAt = 0)
       => (result = "none" /\ sink = prev \o <<StatusByte(144), call.a, 127>>)
    /\ (/\ call.op = "note_off"
        /\ call.b = None
        /\ call.a \in SevenBit
        /\ call.failAt = 0)
       => (result = "none" /\ sink = prev \o <<StatusByte(128), call.a, 0>>)

\* note_on(60) has returned on channel 16.
C3_Witness ==
    /\ call.op = "note_on"
    /\ call.b = None
    /\ call.a = 60
    /\ call.failAt = 0
    /\ channel = 16
    /\ Written = <<159, 60, 127>>

\* C4: program_change(p, bank=b) with p in 0..127 and b in 1..16383 appends, on a
\* port that accepts every byte, exactly the nine bytes of control change 32
\* with the bank LSB, control change 0 with the bank MSB, then the program
\* change; whatever the port does, what was appended is a prefix of those nine
\* bytes, so the program change is never written before a bank select.
C4_BankSelectOrder ==
    (/\ call.op = "program_change"
     /\ call.b # None
     /\ call.b[1] \in 1..16383
     /\ call.a \in SevenBit)
    => LET nine == <<StatusByte(176), 32, call.b[1] % 128,
                     StatusByte(176), 0, call.b[1] \div 128,
                     StatusByte(192), call.a, 0>>
       IN  /\ sink = prev \o Written
           /\ IsPrefix(Written, nine)
           /\ call.failAt = 0 => (result = "none" /\ Written = nine)

\* program_change(5, bank=300) has returned on channel 1.
C4_Witness ==
    /\ call.op = "program_change"
    /\ call.b = Some(300)
    /\ call.failAt = 0
    /\ channel = 1
    /\ Written = <<176, 32, 44, 176, 0, 2, 192, 5, 0>>

\* C5: an optional argument that is supplied counts as provided whatever its
\* value: pressure(value, note) writes the poly-pressure message for every note
\* in 0..127, 0 included, and the channel-pressure message only when note is
\* omitted; program_change(p, bank=0) writes the two bank selects, both with
\* value 0, before the program change.
C5_ExplicitZeroIsProvided ==
    /\ (/\ call.op = "pressure"
        /\ call.failAt = 0
        /\ call.a \in SevenBit
        /\ call.b # None
        /\ call.b[1] \in SevenBit)
       => sink = prev \o <<StatusByte(160), call.b[1], call.a>>
    /\ (/\ call.op = "pressure"
        /\ call.failAt = 0
        /\ call.a \in SevenBit
        /\ call.b = None)
       => sink = prev \o <<StatusByte(208), call.a, 0>>
    /\ (/\ call.op = "program_change"
        /\ call.failAt = 0
        /\ call.a \in SevenBit
        /\ call.b = Some(0))
       => sink = prev \o <<StatusByte(176), 32, 0,
                           StatusByte(176), 0, 0,
                           StatusByte(192), call.a, 0>>

\* C6: on a port that accepts every byte, pitch_bend(v) with v in 0..16383
\* appends exactly [0xE0 + (c-1), v mod 128, v div 128], the LSB as data1, and
\* pitch_bend() appends [0xE0 + (c-1), 0, 64].
C6_PitchBendLsbFirst ==
    (call.op = "pitch_bend" /\ call.failAt = 0) =>
        /\ call.b = None
           => (result = "none" /\ sink = prev \o <<StatusByte(224), 0, 64>>)
        /\ (call.b # None /\ call.b[1] \in 0..16383)
           => /\ result = "none"
              /\ sink = prev \o <<StatusByte(224), call.b[1] % 128,
                                  call.b[1] \div 128>>

\* pitch_bend(300) has returned on channel 2.
C6_Witness ==
    /\ call.op = "pitch_bend"
    /\ call.b = Some(300)
    /\ call.failAt = 0
    /\ channel = 2
    /\ Written = <<225, 44, 2>>

\* C7: on a port that accepts every byte, modulation(v, fine=True) returns and
\* appends exactly control change 33 with the LSB half then control change 1
\* with the MSB half of v; modulation(v, fine=False) with v in 0..127 appends
\* exactly [0xB0 + (c-1), 1, v].
C7_ModulationFine ==
    /\ (/\ call.op = "modulation"
        /\ call.fine
        /\ call.failAt = 0
        /\ call.a \in SevenBit)
       => /\ result = "none"
          /\ sink = prev \o <<StatusByte(176), 33, call.a % 128,
                              StatusByte(176), 1, call.a \div 128>>
    /\ (/\ call.op = "modulation"
        /\ ~call.fine
        /\ call.failAt = 0
        /\ call.a \in SevenBit)
       => (result = "none" /\ sink = prev \o <<StatusByte(176), 1, call.a>>)

\* C8: on a port that accepts every byte, panic() appends exactly the control
\* changes 120, 121 and 123 with value 0, in that order; when the port fails
\* during the first of them, panic() raises the error and no byte of the second
\* or third message is written.
C8_PanicOrder ==
    call.op = "panic" =>
        /\ call.failAt = 0
           => /\ result = "none"
              /\ sink = prev \o <<StatusByte(176), 120, 0,
                                  StatusByte(176), 121, 0,
                                  StatusByte(176), 123, 0>>
        /\ call.failAt \in 1..3
           => /\ result = "IOError"
              /\ sink = prev \o SubSeq(<<StatusByte(176), 120, 0>>, 1,
                                       call.failAt - 1)

\* panic() has raised at the third byte of its first message.
C8_Witness ==
    /\ call.op = "panic"
    /\ call.failAt = 3
    /\ result = "IOError"
    /\ Written = <<StatusByte(176), 120>>

\* C9: after any calls, with any arguments and any port failures, every byte the
\* port holds is in 0..255, every byte in a status position is one of the seven
\* command bases plus (c-1), and every byte in a data position is in 0..127.
C9_BytesWellFormed ==
    /\ Len(tags) = Len(sink)
    /\ \A i \in 1..Len(sink) :
        /\ sink[i] \in 0..255
        /\ tags[i] \in {"status", "data1", "data2"}
        /\ tags[i] = "status"
           => \E base \in {128, 144, 160, 176, 192, 208, 224} :
                  sink[i] = base + (channel - 1)
        /\ tags[i] # "status" => sink[i] \in SevenBit

\* A call with a data2 out of range has raised after its status and data1 bytes
\* were written.
C9_Witness ==
    /\ result = "ValueError"
    /\ call.failAt = 0
    /\ Len(Written) = 2
    /\ tags[Len(tags)] = "data1"

\* C10: when the port fails at the k-th byte write a call makes, the call
\* raises that error, the port holds what it held before the call followed by
\* the first k-1 bytes the call writes to a port that never fails, and nothing
\* after them.
C10_FailureStops ==
    (call.op # "none" /\ call.failAt >= 1) =>
        LET full == Exec([call EXCEPT !.failAt = 0]).out
        IN  call.failAt <= Len(full)
            => /\ result = "IOError"
               /\ sink = prev \o SubSeq(full, 1, call.failAt - 1)

\* program_change with a bank has raised at the second byte of its second
\* message.
C10_Witness ==
    /\ call.op = "program_change"
    /\ Truthy(call.b)
    /\ call.failAt = 5
    /\ result = "IOError"
    /\ Len(Written) = 4

====
